---- MODULE Spec2Model ----
(***************************************************************************)
(* Model of mvpa/incrsearch.py: IncrementalFeatureSearch, a greedy,        *)
(* cross-validated forward selection of features or ROIs.                  *)
(*                                                                         *)
(* Ratings and the break criterion are counted in units of 1/MaxRating of  *)
(* classification accuracy; a per-fold accuracy is kept as the pair        *)
(* <<number of correct predictions, number of meta-test samples>>.         *)
(* Python list and array objects that the code shares between frames live  *)
(* in `heap`, so that aliasing and in-place mutation can be expressed.     *)
(***************************************************************************)
EXTENDS Integers, Sequences, FiniteSets, TLC

\* ------------------------------------------------------------------------
\* Bounds of the model
\* ------------------------------------------------------------------------
MaxShape == 2
MaxMaskVal == 1
MaxRating == 2

Shapes == 1..MaxShape
MaskValues == 0..MaxMaskVal
Masks == UNION {[1..n -> MaskValues] : n \in Shapes}
Ratings == 0..MaxRating
BreakCrits == (-1)..MaxRating

\* The dataset handed to the constructor: three samples from two origin
\* groups (origin 1 contributes two samples, origin 2 one) with binary labels.
OriginLabels == <<1, 1, 2>>
Reg == <<0, 1, 0>>
Samples == 1..Len(OriginLabels)
Labels == {0, 1}
Origins == {OriginLabels[s] : s \in Samples}
MetaCVTypes == 0..(Cardinality(Origins) + 1)

VARIABLES
  pc,                    \* position: "new", "init_failed", "idle", "fold", "search", "eval"
  mask,                  \* self.__mask
  origshape,             \* self.__pattern.origshape
  break_crit,            \* self.__break_crit
  metacvtype,            \* self.__metacvtype
  perfs,                 \* self.__perfs
  selection_masks,       \* self.__selection_masks
  metacv_origins,        \* self.__metacv_origins
  mode,                  \* which entry point is running: "features" or "rois"
  heap,                  \* contents of the list/array objects shared between frames
  candidates,            \* __doCVSelection: reference to the candidate pool
  selected_features,     \* entry point: reference to the initial selected set
  cv_features,           \* __doCVSelection: per-fold selected sets
  cv_rois,               \* __doCVSelection: per-fold chosen-id lists
  fold,                  \* __doCVSelection: 1-based position in metacv_origins
  meta_train,            \* __doCVSelection: samples of the meta-train split
  meta_test,             \* __doCVSelection: samples of the meta-test split
  bestfeature_pat,       \* __doCVSelection: pattern the classifier is fit on
  test_pat,              \* __doCVSelection: pattern the classifier predicts on
  feat_cand,             \* __doSelection: reference to the local pool
  selected,              \* __doSelection: reference to the current selected set
  best_performance_ever, \* __doSelection
  best_ids,              \* __doSelection
  rating_array,          \* __doSelection: ratings of the latest round
  best_id,               \* __doSelection: winner of the latest round
  outcome,               \* how the latest call ended: "none", "returned", "raised"
  raised_fold,           \* meta-fold in which the propagated failure arose (0: none)
  retval,                \* value returned by the latest call
  mean_mask              \* value returned by the latest getMeanSelectionMask call

vars == <<pc, mask, origshape, break_crit, metacvtype, perfs, selection_masks,
          metacv_origins, mode, heap, candidates, selected_features,
          cv_features, cv_rois, fold, meta_train, meta_test, bestfeature_pat,
          test_pat, feat_cand, selected, best_performance_ever, best_ids,
          rating_array, best_id, outcome, raised_fold, retval, mean_mask>>

\* ------------------------------------------------------------------------
\* Sequence helpers
\* ------------------------------------------------------------------------
Range(s) == {s[k] : k \in 1..Len(s)}

NoDuplicates(s) == \A j, k \in 1..Len(s) : j # k => s[j] # s[k]

RECURSIVE SortedSeq(_)
SortedSeq(S) ==
  IF S = {} THEN <<>>
  ELSE LET m == CHOOSE x \in S : \A y \in S : x <= y
       IN <<m>> \o SortedSeq(S \ {m})

\* numpy max of a non-empty rating array
ArrayMax(a) == CHOOSE v \in Range(a) : \A w \in Range(a) : w <= v

\* ------------------------------------------------------------------------
\* Heap of shared objects
\* ------------------------------------------------------------------------
NoRef == "none"
Refs == {"candidates", "feat_cand", "selected_features", "merged", "features"}
EmptyHeap == [r \in Refs |-> <<>>]
NoPattern == [samples |-> {}, features |-> <<>>]

\* ------------------------------------------------------------------------
\* Collaborators (dataset, cross-validation helpers), as the code uses them
\* ------------------------------------------------------------------------
\* self.pattern: every sample, every feature
pattern == [samples |-> Samples, features |-> "all"]

\* pattern.selectFeatures(f): same samples, restricted to f
selectFeaturesOf(p, f) == [samples |-> p.samples, features |-> f]

\* crossval.getUniqueLengthNCombinations: all n-subsets of the unique labels,
\* in lexicographic order of their sorted members
MaxOrigin == CHOOSE o \in Origins : \A q \in Origins : q <= o

Weight(T) ==
  LET w[k \in 0..MaxOrigin] ==
        IF k = 0 THEN 0
        ELSE w[k - 1] + (IF k \in T THEN 2 ^ (MaxOrigin - k) ELSE 0)
  IN w[MaxOrigin]

RECURSIVE LexSeq(_)
LexSeq(SS) ==
  IF SS = {} THEN <<>>
  ELSE LET first == CHOOSE T \in SS : \A U \in SS : Weight(U) <= Weight(T)
       IN <<first>> \o LexSeq(SS \ {first})

getUniqueLengthNCombinations(labels, n) ==
  LexSeq({T \in SUBSET Range(labels) : Cardinality(T) = n})

\* crossval.CrossValidation.splitTrainTestData(pattern, exclude)
splitTrainTestData(p, exclude) ==
  [train |-> [samples |-> {s \in p.samples : OriginLabels[s] \notin exclude},
              features |-> p.features],
   test  |-> [samples |-> {s \in p.samples : OriginLabels[s] \in exclude},
              features |-> p.features]]

\* pattern.getFeatureId(coord): flat 0-based index of a coordinate
getFeatureId(coord) == coord - 1

\* pattern.features2origmask(f): boolean mask over the original feature space
features2origmask(f) ==
  [k \in 1..Len(mask) |-> \E j \in 1..Len(f) : f[j] = getFeatureId(k)]

\* ------------------------------------------------------------------------
\* IncrementalFeatureSearch: pure parts
\* ------------------------------------------------------------------------
\* a constructor that never rejects a mask
ShapeMatches_unchecked(mask_shape, pattern_origshape) == TRUE

\* __init__, line 67: the shape test
ShapeMatches(mask_shape, pattern_origshape) == mask_shape = pattern_origshape

\* a reset that forgets the accuracy list
clearResults_keepPerfs ==
  [perfs |-> perfs, selection_masks |-> <<>>, metacv_origins |-> <<>>]

\* a reset that forgets the selection masks
clearResults_keepMasks ==
  [perfs |-> <<>>, selection_masks |-> selection_masks, metacv_origins |-> <<>>]

\* __clearResults
clearResults ==
  [perfs |-> <<>>, selection_masks |-> <<>>, metacv_origins |-> <<>>]

\* a merge that appends to the list it is given and hands that list back
selectByFeatureId_inplace(h, sel, candidate, out) ==
  [heap |-> [h EXCEPT ![sel] = Append(h[sel], candidate)], ref |-> sel]

\* a merge that puts the candidate in front
selectByFeatureId_prepend(h, sel, candidate, out) ==
  [heap |-> [h EXCEPT ![out] = <<candidate>> \o h[sel]], ref |-> out]

\* __selectByFeatureId: a new list, selected + [candidate]
selectByFeatureId(h, sel, candidate, out) ==
  [heap |-> [h EXCEPT ![out] = Append(h[sel], candidate)], ref |-> out]

\* a merge that marks only the first element of the region
selectByMaskValue_first(h, sel, candidate, out) ==
  [heap |-> [h EXCEPT ![out] =
               [k \in 1..Len(mask) |->
                  h[sel][k] \/ (/\ mask[k] = candidate
                                /\ \A j \in 1..(k - 1) : mask[j] # candidate)]],
   ref |-> out]

\* __selectByMaskValue: a new array, logical_or(selected, mask == candidate)
selectByMaskValue(h, sel, candidate, out) ==
  [heap |-> [h EXCEPT ![out] =
               [k \in 1..Len(mask) |-> h[sel][k] \/ (mask[k] = candidate)]],
   ref |-> out]

\* the featureselector argument handed over by the entry point
featureselector(h, sel, candidate, out) ==
  IF mode = "features" THEN selectByFeatureId(h, sel, candidate, out)
  ELSE selectByMaskValue(h, sel, candidate, out)

\* a pool that leaves the background value 0 out
mask_values_nonzero == SortedSeq(Range(mask) \ {0})

\* selectROIs: np.unique(self.mask).tolist()
mask_values == SortedSeq(Range(mask))

\* selectFeatures: feature ids of the nonzero mask elements, in scan order
cand_features ==
  LET nz == SelectSeq([k \in 1..Len(mask) |-> k], LAMBDA k : mask[k] # 0)
  IN [j \in 1..Len(nz) |-> getFeatureId(nz[j])]

\* selectROIs: np.zeros(self.mask.shape, dtype='bool')
zeros_bool == [k \in 1..Len(mask) |-> FALSE]

\* no copy: the local pool is the caller's list object
copy_copy_alias(h, src) == [heap |-> h, ref |-> src]

\* copy.copy(candidates): a new list object with the same elements
copy_copy(h, src) ==
  [heap |-> [h EXCEPT !["feat_cand"] = h[src]], ref |-> "feat_cand"]

\* a search that starts below zero
InitialBestPerformance_below == 0 - 1

\* __doSelection, line 164
InitialBestPerformance == 0

\* position of the last maximum
argmax_last(a) ==
  CHOOSE k \in 1..Len(a) :
    /\ a[k] = ArrayMax(a)
    /\ \A j \in (k + 1)..Len(a) : a[j] # ArrayMax(a)

\* rating_array.argmax(): 1-based position of the first maximum
argmax(a) ==
  CHOOSE k \in 1..Len(a) :
    /\ a[k] = ArrayMax(a)
    /\ \A j \in 1..(k - 1) : a[j] # ArrayMax(a)

\* a break test that also stops on a gain equal to the criterion
BreakTest_inclusive(max_rating, best, crit) == max_rating - best <= crit

\* a break test with the comparison turned around
BreakTest_inverted(max_rating, best, crit) == max_rating - best > crit

\* __doSelection, line 213: the break test
BreakTest(max_rating, best, crit) == max_rating - best < crit

\* a removal that drops the last element of the list, whatever x is
list_remove_last(s, x) == IF s = <<>> THEN <<>> ELSE SubSeq(s, 1, Len(s) - 1)

\* a removal that removes nothing
list_remove_none(s, x) == s

\* a removal that drops the head of the list, whatever x is
list_remove_head(s, x) == IF s = <<>> THEN <<>> ELSE Tail(s)

\* list.remove(x): drops the first element equal to x
RECURSIVE list_remove(_, _)
list_remove(s, x) ==
  IF s = <<>> THEN <<>>
  ELSE IF Head(s) = x THEN Tail(s)
  ELSE <<Head(s)>> \o list_remove(Tail(s), x)

\* the value of a variable that holds no getMeanSelectionMask result
NotAsked == [asked |-> FALSE, none |-> FALSE, mean |-> <<>>]

\* a mean without the guard for an empty mask list
getMeanSelectionMask_unguarded ==
  [asked |-> TRUE, none |-> FALSE,
   mean |-> [k \in 1..Len(mask) |->
              <<Cardinality({i \in 1..Len(selection_masks) : selection_masks[i][k]}),
                Len(selection_masks)>>]]

\* getMeanSelectionMask: None without stored masks, else the mean over the
\* folds (axis 0); element k of the mean is kept as <<sum, number of folds>>
getMeanSelectionMask ==
  IF Len(selection_masks) < 1
  THEN [asked |-> TRUE, none |-> TRUE, mean |-> <<>>]
  ELSE [asked |-> TRUE, none |-> FALSE,
        mean |-> [k \in 1..Len(mask) |->
                   <<Cardinality({i \in 1..Len(selection_masks) : selection_masks[i][k]}),
                     Len(selection_masks)>>]]

\* the number of correct predictions, not divided by the number of samples
accuracy_sum(predictions, tested) ==
  <<Cardinality({s \in tested : predictions[s] = Reg[s]}), 1>>

\* __doCVSelection, line 148: ( predictions == meta_test.reg ).mean(), kept as
\* <<number of correct predictions, number of meta-test samples>>
accuracy(predictions, tested) ==
  <<Cardinality({s \in tested : predictions[s] = Reg[s]}), Cardinality(tested)>>

\* __doSelection, lines 182-203: the trial merges of one round, in pool order
RECURSIVE TrialMerges(_, _, _)
TrialMerges(h, sel, pool) ==
  IF pool = <<>> THEN h
  ELSE TrialMerges(featureselector(h, sel, Head(pool), "features").heap,
                   sel, Tail(pool))

\* ------------------------------------------------------------------------
\* Initial state and actions
\* ------------------------------------------------------------------------
Init ==
  /\ pc = "new"
  /\ mask = <<>>
  /\ origshape = 0
  /\ break_crit = 0
  /\ metacvtype = 0
  /\ perfs = <<>>
  /\ selection_masks = <<>>
  /\ metacv_origins = <<>>
  /\ mode = "none"
  /\ heap = EmptyHeap
  /\ candidates = NoRef
  /\ selected_features = NoRef
  /\ cv_features = <<>>
  /\ cv_rois = <<>>
  /\ fold = 0
  /\ meta_train = NoPattern
  /\ meta_test = NoPattern
  /\ bestfeature_pat = NoPattern
  /\ test_pat = NoPattern
  /\ feat_cand = NoRef
  /\ selected = NoRef
  /\ best_performance_ever = 0
  /\ best_ids = <<>>
  /\ rating_array = <<>>
  /\ best_id = -1
  /\ outcome = "none"
  /\ raised_fold = 0
  /\ retval = <<>>
  /\ mean_mask = NotAsked

\* the frames of __doCVSelection and __doSelection hold nothing
FramesCleared ==
  /\ heap' = EmptyHeap
  /\ candidates' = NoRef
  /\ selected_features' = NoRef
  /\ cv_features' = <<>>
  /\ cv_rois' = <<>>
  /\ fold' = 0
  /\ meta_train' = NoPattern
  /\ meta_test' = NoPattern
  /\ bestfeature_pat' = NoPattern
  /\ test_pat' = NoPattern
  /\ feat_cand' = NoRef
  /\ selected' = NoRef
  /\ best_performance_ever' = 0
  /\ best_ids' = <<>>
  /\ rating_array' = <<>>
  /\ best_id' = -1

\* the frame of __doSelection holds nothing
SelectionFrameCleared ==
  /\ feat_cand' = NoRef
  /\ selected' = NoRef
  /\ best_performance_ever' = 0
  /\ best_ids' = <<>>
  /\ rating_array' = <<>>
  /\ best_id' = -1

\* __init__( pattern, mask, metacvtype, break_crit )
Construct ==
  /\ pc = "new"
  /\ \E m \in Masks, shape \in Shapes, crit \in BreakCrits, mcv \in MetaCVTypes :
       /\ mask' = m
       /\ origshape' = shape
       /\ break_crit' = crit
       /\ metacvtype' = mcv
       /\ IF ~ShapeMatches(Len(m), shape)
          THEN /\ pc' = "init_failed"
               /\ UNCHANGED <<perfs, selection_masks, metacv_origins>>
          ELSE /\ pc' = "idle"
               /\ perfs' = clearResults.perfs
               /\ selection_masks' = clearResults.selection_masks
               /\ metacv_origins' = clearResults.metacv_origins
  /\ UNCHANGED <<mode, heap, candidates, selected_features, cv_features,
                 cv_rois, fold, meta_train, meta_test, bestfeature_pat,
                 test_pat, feat_cand, selected, best_performance_ever,
                 best_ids, rating_array, best_id, outcome, raised_fold, retval,
                 mean_mask>>

\* entry of selectROIs / selectFeatures up to the head of the meta-fold loop
EnterCall(m, pool, initial_selected) ==
  /\ pc = "idle"
  /\ mode' = m
  /\ perfs' = clearResults.perfs
  /\ selection_masks' = clearResults.selection_masks
  /\ metacv_origins' = getUniqueLengthNCombinations(OriginLabels, metacvtype)
  /\ heap' = [EmptyHeap EXCEPT !["candidates"] = pool,
                               !["selected_features"] = initial_selected]
  /\ candidates' = "candidates"
  /\ selected_features' = "selected_features"
  /\ cv_features' = <<>>
  /\ cv_rois' = <<>>
  /\ fold' = 1
  /\ pc' = "fold"
  /\ outcome' = "none"
  /\ raised_fold' = 0
  /\ retval' = <<>>
  /\ mean_mask' = NotAsked
  /\ SelectionFrameCleared
  /\ UNCHANGED <<mask, origshape, break_crit, metacvtype, meta_train,
                 meta_test, bestfeature_pat, test_pat>>

selectROIs_enter == EnterCall("rois", mask_values, zeros_bool)

selectFeatures_enter == EnterCall("features", cand_features, <<>>)

\* __doCVSelection: split the data, enter __doSelection (lines 122-172)
FoldBegin ==
  /\ pc = "fold"
  /\ fold <= Len(metacv_origins)
  /\ LET split == splitTrainTestData(pattern, metacv_origins[fold])
         cp == copy_copy(heap, candidates)
     IN /\ meta_train' = split.train
        /\ meta_test' = split.test
        /\ heap' = cp.heap
        /\ feat_cand' = cp.ref
  /\ selected' = selected_features
  /\ best_performance_ever' = InitialBestPerformance
  /\ best_ids' = <<>>
  /\ rating_array' = <<>>
  /\ best_id' = -1
  /\ pc' = "search"
  /\ UNCHANGED <<mean_mask, mask, origshape, break_crit, metacvtype, perfs,
                 selection_masks, metacv_origins, mode, candidates,
                 selected_features, cv_features, cv_rois, fold,
                 bestfeature_pat, test_pat, outcome, raised_fold, retval>>

\* __doSelection: one round of the while loop (lines 177-229)
Round ==
  /\ pc = "search"
  /\ Len(heap[feat_cand]) > 0
  /\ \E ratings \in [1..Len(heap[feat_cand]) -> Ratings] :
       LET pool == heap[feat_cand]
           rated == TrialMerges(heap, selected, pool)
           winner == pool[argmax(ratings)]
       IN /\ rating_array' = ratings
          /\ best_id' = winner
          /\ IF BreakTest(ArrayMax(ratings), best_performance_ever, break_crit)
             THEN /\ pc' = "eval"
                  /\ heap' = rated
                  /\ UNCHANGED <<selected, best_ids, best_performance_ever>>
             ELSE LET merged == featureselector(rated, selected, winner, "merged")
                  IN /\ selected' = merged.ref
                     /\ best_ids' = Append(best_ids, winner)
                     /\ heap' = [merged.heap EXCEPT ![feat_cand] =
                                   list_remove(merged.heap[feat_cand], winner)]
                     /\ best_performance_ever' = ArrayMax(ratings)
                     /\ pc' = "search"
  /\ UNCHANGED <<mean_mask, mask, origshape, break_crit, metacvtype, perfs,
                 selection_masks, metacv_origins, mode, candidates,
                 selected_features, cv_features, cv_rois, fold, meta_train,
                 meta_test, bestfeature_pat, test_pat, feat_cand, outcome,
                 raised_fold, retval>>

\* __doSelection: the while condition fails, the loop is left (line 177)
LoopExit ==
  /\ pc = "search"
  /\ Len(heap[feat_cand]) = 0
  /\ pc' = "eval"
  /\ UNCHANGED <<mean_mask, mask, origshape, break_crit, metacvtype, perfs,
                 selection_masks, metacv_origins, mode, heap, candidates,
                 selected_features, cv_features, cv_rois, fold, meta_train,
                 meta_test, bestfeature_pat, test_pat, feat_cand, selected,
                 best_performance_ever, best_ids, rating_array, best_id,
                 outcome, raised_fold, retval>>

\* __doCVSelection: __doSelection has returned; fit, predict, store
\* (lines 139-150)
FoldEvaluate ==
  /\ pc = "eval"
  /\ LET selected_fold == heap[selected]
         train == selectFeaturesOf(pattern, selected_fold)
         test == selectFeaturesOf(meta_test, selected_fold)
     IN /\ bestfeature_pat' = train
        /\ test_pat' = test
        /\ \E predictions \in [test.samples -> Labels] :
             perfs' = Append(perfs, accuracy(predictions, meta_test.samples))
        /\ cv_features' = Append(cv_features, selected_fold)
        /\ cv_rois' = Append(cv_rois, best_ids)
  /\ heap' = [heap EXCEPT !["feat_cand"] = <<>>, !["merged"] = <<>>,
                          !["features"] = <<>>]
  /\ fold' = fold + 1
  /\ pc' = "fold"
  /\ SelectionFrameCleared
  /\ UNCHANGED <<mean_mask, mask, origshape, break_crit, metacvtype, selection_masks,
                 metacv_origins, mode, candidates, selected_features,
                 meta_train, meta_test, outcome, raised_fold, retval>>

\* the meta-fold loop is exhausted: __doCVSelection returns and the entry
\* point stores the masks and returns (lines 152, 283-285, 331-334)
Return ==
  /\ pc = "fold"
  /\ fold > Len(metacv_origins)
  /\ IF mode = "rois"
     THEN /\ selection_masks' = cv_features
          /\ retval' = cv_rois
     ELSE /\ selection_masks' =
               [k \in 1..Len(cv_features) |-> features2origmask(cv_features[k])]
          /\ retval' = cv_features
  /\ outcome' = "returned"
  /\ pc' = "idle"
  /\ FramesCleared
  /\ UNCHANGED <<mean_mask, mask, origshape, break_crit, metacvtype, perfs,
                 metacv_origins, mode, raised_fold>>

\* a collaborator raises inside a meta-fold; nothing catches it
CollaboratorFails ==
  /\ \/ pc = "fold" /\ fold <= Len(metacv_origins)
     \/ pc = "search" /\ Len(heap[feat_cand]) > 0
     \/ pc = "eval"
  /\ outcome' = "raised"
  /\ raised_fold' = fold
  /\ pc' = "idle"
  /\ FramesCleared
  /\ UNCHANGED <<mean_mask, mask, origshape, break_crit, metacvtype, perfs,
                 selection_masks, metacv_origins, mode, retval>>

\* a caller asks for the mean selection mask between two calls
getMeanSelectionMask_call ==
  /\ pc = "idle"
  /\ mean_mask' = getMeanSelectionMask
  /\ UNCHANGED <<pc, mask, origshape, break_crit, metacvtype, perfs,
                 selection_masks, metacv_origins, mode, heap, candidates,
                 selected_features, cv_features, cv_rois, fold, meta_train,
                 meta_test, bestfeature_pat, test_pat, feat_cand, selected,
                 best_performance_ever, best_ids, rating_array, best_id,
                 outcome, raised_fold, retval>>

Next ==
  \/ Construct
  \/ selectROIs_enter
  \/ selectFeatures_enter
  \/ FoldBegin
  \/ Round
  \/ LoopExit
  \/ FoldEvaluate
  \/ Return
  \/ CollaboratorFails
  \/ getMeanSelectionMask_call

Spec == Init /\ [][Next]_vars

\* the steps of a run in which every collaborator call returns
NextReturning ==
  \/ Construct
  \/ selectROIs_enter
  \/ selectFeatures_enter
  \/ FoldBegin
  \/ Round
  \/ LoopExit
  \/ FoldEvaluate
  \/ Return
  \/ getMeanSelectionMask_call

\* the code is sequential: once a call is entered, each of its steps is
\* taken as soon as it is the next one
LiveSpec ==
  /\ Init
  /\ [][NextReturning]_vars
  /\ WF_vars(FoldBegin)
  /\ WF_vars(Round)
  /\ WF_vars(LoopExit)
  /\ WF_vars(FoldEvaluate)
  /\ WF_vars(Return)

TypeOK ==
  /\ pc \in {"new", "init_failed", "idle", "fold", "search", "eval"}
  /\ outcome \in {"none", "returned", "raised"}
  /\ best_performance_ever \in Ratings

\* ------------------------------------------------------------------------
\* Properties
\* ------------------------------------------------------------------------
InCall == pc \in {"fold", "search", "eval"}

\* the pool the running entry point built from the mask
EntryPool == IF mode = "rois" THEN mask_values ELSE cand_features

\* the selected set the running entry point created
EntrySelected == IF mode = "rois" THEN zeros_bool ELSE <<>>

\* C1: in every meta-fold the classifier that yields the fold's accuracy is
\* fit on the meta-train split restricted to the selected features, so on no
\* sample of an excluded origin, and predicts on the restricted meta-test
\* split. (States right after a fold's evaluation: the fold counter has
\* moved on, the splits are still those of the evaluated fold.)
C1_FitOnMetaTrainOnly ==
  (pc = "fold" /\ fold > 1) =>
    /\ bestfeature_pat.samples = meta_train.samples
    /\ \A s \in bestfeature_pat.samples :
         OriginLabels[s] \notin metacv_origins[fold - 1]
    /\ bestfeature_pat.features = cv_features[fold - 1]
    /\ test_pat.samples = meta_test.samples
    /\ test_pat.features = cv_features[fold - 1]

\* C2 as stated: after a failure inside any meta-fold has propagated, the
\* accuracy list and the selection-mask list are both empty.
C2_ClearedAfterFailure ==
  outcome = "raised" => (perfs = <<>> /\ selection_masks = <<>>)

\* C2: after a failure inside a meta-fold has propagated to the caller, no
\* value was returned, the selection-mask list is empty and the accuracy
\* list holds one entry for each meta-fold completed before the failing one.
C2_PartialAccuraciesAfterFailure ==
  outcome = "raised" =>
    /\ pc = "idle"
    /\ retval = <<>>
    /\ selection_masks = <<>>
    /\ raised_fold \in 1..Len(metacv_origins)
    /\ Len(perfs) = raised_fold - 1

C2_Witness ==
  outcome = "raised" /\ raised_fold = 2 /\ Len(perfs) = 1

\* the selection mask that belongs to one fold's returned id list
MaskOfReturned(ids) ==
  IF mode = "rois" THEN [k \in 1..Len(mask) |-> mask[k] \in Range(ids)]
  ELSE features2origmask(ids)

\* C3: after every call that returns, the accuracy list, the selection-mask
\* list and the returned list have one entry per meta-fold of this call, in
\* meta-fold order: entry i of the accuracy list counts the meta-test samples
\* of fold i, and entry i of the mask list is the mask of returned entry i.
C3_OneEntryPerFold ==
  outcome = "returned" =>
    /\ metacv_origins = getUniqueLengthNCombinations(OriginLabels, metacvtype)
    /\ Len(perfs) = Len(metacv_origins)
    /\ Len(selection_masks) = Len(metacv_origins)
    /\ Len(retval) = Len(metacv_origins)
    /\ \A i \in 1..Len(metacv_origins) :
         /\ perfs[i][2] =
              Cardinality(splitTrainTestData(pattern, metacv_origins[i]).test.samples)
         /\ selection_masks[i] = MaskOfReturned(retval[i])

C3_Witness ==
  /\ outcome = "returned"
  /\ Len(metacv_origins) = 2
  /\ Len(perfs) = 2
  /\ retval[1] # retval[2]
  /\ retval[2] # <<>>

\* C4: construction fails exactly when the mask's shape differs from the
\* pattern's original shape; a failed construction leaves no object on which
\* a search runs; a successful one starts with empty result lists.
C4_ShapeChecked ==
  /\ pc = "init_failed" =>
       (Len(mask) # origshape /\ outcome = "none" /\ mode = "none")
  /\ pc \notin {"new", "init_failed"} => Len(mask) = origshape
  /\ (pc = "idle" /\ outcome = "none" /\ mode = "none") =>
       (perfs = <<>> /\ selection_masks = <<>>)

C4_Witness == pc = "init_failed" /\ Len(mask) # origshape

\* a step that runs one round of the inner loop to its decision
RoundStep ==
  /\ pc = "search"
  /\ Len(heap[feat_cand]) > 0
  /\ pc' \in {"search", "eval"}

\* the candidate is part of the selected set s
MergedInto(s, candidate) ==
  IF mode = "rois"
  THEN \A k \in 1..Len(mask) : mask[k] = candidate => s[k]
  ELSE candidate \in Range(s)

\* C5: in every round the winner is a remaining candidate with the maximum
\* rating; it is merged into the selected set, appended to the chosen list
\* and removed from the pool exactly when (max rating - best_performance_ever)
\* >= break criterion, and otherwise the loop stops and nothing is added. When
\* the loop has ended, the pool is empty or no rating of the last round
\* reached best_performance_ever + break criterion.
C5_RoundDecision ==
  /\ [](pc = "eval" =>
          \/ heap[feat_cand] = <<>>
          \/ \A k \in 1..Len(rating_array) :
               rating_array[k] < best_performance_ever + break_crit)
  /\ [][RoundStep =>
          LET pool == heap[feat_cand]
              top == ArrayMax(rating_array')
          IN /\ Len(rating_array') = Len(pool)
             /\ \A k \in 1..Len(pool) : rating_array'[k] <= top
             /\ \E k \in 1..Len(pool) :
                  pool[k] = best_id' /\ rating_array'[k] = top
             /\ (top - best_performance_ever >= break_crit) <=> (pc' = "search")
             /\ pc' = "search" =>
                  /\ best_ids' = Append(best_ids, best_id')
                  /\ heap'[feat_cand'] =
                       SelectSeq(pool, LAMBDA c : c # best_id')
                  /\ MergedInto(heap'[selected'], best_id')
                  /\ heap'[selected'] # heap[selected]
                  /\ best_performance_ever' = top
             /\ pc' = "eval" =>
                  /\ best_ids' = best_ids
                  /\ heap'[feat_cand'] = pool
                  /\ heap'[selected'] = heap[selected]
                  /\ best_performance_ever' = best_performance_ever]_vars

C5_Witness ==
  /\ pc = "eval"
  /\ Len(best_ids) = 1
  /\ Len(heap[feat_cand]) = 1
  /\ rating_array[1] > 0
  /\ rating_array[1] - best_performance_ever < break_crit

\* C6 as stated: within one run of the inner loop, for any break criterion,
\* every value assigned to best_performance_ever is at least the value it
\* held before.
C6_BestNeverDecreases ==
  [][(pc = "search" /\ pc' = "search") =>
       best_performance_ever' >= best_performance_ever]_vars

\* C6: within one run of the inner loop, for any pool and any ratings, if the
\* break criterion is not negative then every value assigned to
\* best_performance_ever is at least the value it held before.
C6_BestNeverDecreasesNonNegativeCrit ==
  [][(break_crit >= 0 /\ pc = "search" /\ pc' = "search") =>
       best_performance_ever' >= best_performance_ever]_vars

C6_Witness ==
  /\ break_crit >= 0
  /\ pc = "search"
  /\ Len(best_ids) = 2
  /\ best_performance_ever > 0

\* C7: the chosen-id list of an inner-loop run, while it grows and when it is
\* returned and stored, is never longer than the initial pool and holds no
\* id twice.
C7_ChosenBoundedNoDuplicates ==
  InCall =>
    /\ Len(best_ids) <= Len(heap[candidates])
    /\ NoDuplicates(best_ids)
    /\ \A i \in 1..Len(cv_rois) :
         /\ Len(cv_rois[i]) <= Len(heap[candidates])
         /\ NoDuplicates(cv_rois[i])

C7_Witness ==
  /\ pc = "fold"
  /\ Len(cv_rois) = 1
  /\ Len(heap[candidates]) = 2
  /\ Len(cv_rois[1]) = 2

\* C8: when the inner loop has ended and the pool it was given is empty, or
\* its latest round was round one (the rating array is as long as the given
\* pool) and the best rating of that round minus 0 is below the break
\* criterion, the chosen-id list is empty and the selected set is the
\* initial selected set.
C8_FirstRoundBelowCriterion ==
  (/\ pc = "eval"
   /\ \/ heap[candidates] = <<>>
      \/ /\ Len(rating_array) = Len(heap[candidates])
         /\ ArrayMax(rating_array) - 0 < break_crit) =>
    /\ best_ids = <<>>
    /\ selected = selected_features
    /\ heap[selected] = EntrySelected

C8_Witness ==
  /\ pc = "eval"
  /\ Len(heap[candidates]) = 2
  /\ Len(rating_array) = 2
  /\ ArrayMax(rating_array) = 1
  /\ break_crit = 2
  /\ best_ids = <<>>

\* C9: during a call the caller's pool keeps the elements and the order the
\* entry point gave it, and every meta-fold's search starts from a local pool
\* equal to it.
C9_PoolNotMutated ==
  InCall =>
    /\ heap[candidates] = EntryPool
    /\ (pc = "search" /\ rating_array = <<>>) => heap[feat_cand] = EntryPool

C9_Witness ==
  /\ pc = "search"
  /\ fold = 2
  /\ rating_array = <<>>
  /\ Len(cv_rois[1]) >= 1
  /\ Len(heap[feat_cand]) = 2

\* C10: in every round the pool is the initial pool without the candidates
\* chosen so far, in the initial order, and the winner is the first candidate
\* in that order whose rating is the round's maximum.
C10_FirstMaximumWins ==
  [][RoundStep =>
       LET pool == heap[feat_cand]
           top == ArrayMax(rating_array')
       IN /\ pool = SelectSeq(heap[candidates],
                              LAMBDA c : c \notin Range(best_ids))
          /\ \E k \in 1..Len(pool) :
               /\ best_id' = pool[k]
               /\ rating_array'[k] = top
               /\ \A j \in 1..(k - 1) : rating_array'[j] < top]_vars

C10_Witness ==
  /\ pc = "search"
  /\ Len(heap[candidates]) = 2
  /\ Len(rating_array) = 2
  /\ rating_array[1] = rating_array[2]
  /\ best_ids = <<heap[candidates][1]>>
  /\ best_id = heap[candidates][1]

\* C11: getMeanSelectionMask returns None exactly when no fold's selection
\* mask is stored (fresh object, empty meta-fold partition, failed call), and
\* otherwise the element-wise mean of the stored per-fold masks: element k is
\* the number of stored masks selecting k, divided by the number of masks.
C11_MeanMaskOrNone ==
  mean_mask.asked =>
    /\ mean_mask.none <=> (selection_masks = <<>>)
    /\ (outcome = "none" \/ metacv_origins = <<>>) => mean_mask.none
    /\ ~mean_mask.none =>
         /\ Len(mean_mask.mean) = Len(mask)
         /\ \A k \in 1..Len(mask) :
              /\ mean_mask.mean[k][2] = Len(selection_masks)
              /\ mean_mask.mean[k][2] > 0
              /\ mean_mask.mean[k][1] =
                   Cardinality({i \in 1..Len(selection_masks) :
                                  selection_masks[i][k] = TRUE})

C11_Witness ==
  /\ mean_mask.asked
  /\ mean_mask.none
  /\ outcome = "returned"
  /\ metacv_origins = <<>>

\* C12: the pool selectFeatures hands to the outer loop has one candidate per
\* nonzero mask element, in scan order (candidate j is the feature id of the
\* j-th nonzero element); the pool selectROIs hands over has one candidate
\* per distinct mask value, ascending, the value 0 included when it occurs.
C12_PoolFromMask ==
  InCall =>
    LET pool == heap[candidates]
        nonzero == {k \in 1..Len(mask) : mask[k] # 0}
    IN IF mode = "features"
       THEN /\ Len(pool) = Cardinality(nonzero)
            /\ \A k \in nonzero :
                 pool[Cardinality({i \in nonzero : i <= k})] = getFeatureId(k)
       ELSE /\ Len(pool) = Cardinality(Range(mask))
            /\ Range(pool) = Range(mask)
            /\ \A j \in 1..(Len(pool) - 1) : pool[j] < pool[j + 1]
            /\ 0 \in Range(mask) => pool[1] = 0

C12_Witness ==
  /\ pc = "search"
  /\ mode = "rois"
  /\ mask = <<1, 0>>
  /\ heap[candidates] = <<0, 1>>

UnionOfRegions(b, ids) ==
  /\ Len(b) = Len(mask)
  /\ \A k \in 1..Len(mask) : b[k] <=> (mask[k] \in Range(ids))
  /\ \A j, k \in 1..Len(mask) : mask[j] = mask[k] => (b[j] <=> b[k])

\* C14: in ROI mode the selected mask of a fold, while it grows, when it is
\* handed back and when it is stored, is the union of the regions named in
\* that fold's chosen-id list; every region is selected whole or not at all.
C14_WholeRegionsOnly ==
  mode = "rois" =>
    /\ pc \in {"search", "eval"} => UnionOfRegions(heap[selected], best_ids)
    /\ InCall =>
         \A i \in 1..Len(cv_features) : UnionOfRegions(cv_features[i], cv_rois[i])
    /\ outcome = "returned" =>
         \A i \in 1..Len(selection_masks) :
           UnionOfRegions(selection_masks[i], retval[i])

C14_Witness ==
  /\ mode = "rois"
  /\ outcome = "returned"
  /\ mask = <<1, 1>>
  /\ Len(retval) = 2
  /\ retval[1] = <<1>>
  /\ selection_masks[1] = <<TRUE, TRUE>>
  /\ retval[2] = <<>>
  /\ selection_masks[2] = <<FALSE, FALSE>>

\* C15: in feature mode the selected set of a fold equals the fold's
\* chosen-id list, same ids in the same order of acceptance, while the search
\* runs and when both are stored per fold; the list selectFeatures returns is
\* the per-fold chosen-id list.
C15_SelectedEqualsChosen ==
  /\ [](mode = "features" =>
          /\ pc \in {"search", "eval"} => heap[selected] = best_ids
          /\ InCall => cv_features = cv_rois)
  /\ [][(mode = "features" /\ pc = "fold" /\ outcome' = "returned") =>
          retval' = cv_rois]_vars

C15_Witness ==
  /\ mode = "features"
  /\ pc = "fold"
  /\ Len(cv_features) = 1
  /\ Len(cv_features[1]) = 2
  /\ cv_features[1][1] > cv_features[1][2]
  /\ cv_rois[1] = cv_features[1]

\* the selected set s with the candidate merged in, and nothing else
WithCandidate(s, candidate) ==
  IF mode = "rois"
  THEN [k \in 1..Len(mask) |-> s[k] \/ (mask[k] = candidate)]
  ELSE Append(s, candidate)

\* C16: no merge, trial or accepted, changes the selected set it is given:
\* the initial selected set of the entry point keeps its value through the
\* whole call, every meta-fold's search starts from it, a round that rejects
\* its winner leaves the current selected set as it was, and a round that
\* accepts its winner adds that winner only.
C16_MergesDoNotMutate ==
  /\ [](InCall =>
          /\ heap[selected_features] = EntrySelected
          /\ (pc = "search" /\ rating_array = <<>>) =>
               heap[selected] = EntrySelected)
  /\ [][RoundStep =>
          /\ heap'[selected_features'] = heap[selected_features]
          /\ pc' = "eval" => heap'[selected'] = heap[selected]
          /\ pc' = "search" =>
               heap'[selected'] = WithCandidate(heap[selected], best_id')]_vars

C16_Witness ==
  /\ mode = "rois"
  /\ pc = "search"
  /\ fold = 2
  /\ rating_array = <<>>
  /\ \E k \in 1..Len(mask) : cv_features[1][k]
  /\ heap[selected] = zeros_bool

\* C17: at the start of every round, for an initial pool without duplicates,
\* the chosen-id list and the local pool have no candidate in common and
\* together hold exactly the candidates of the initial pool.
C17_ChosenAndPoolPartition ==
  (pc = "search" /\ NoDuplicates(heap[candidates])) =>
    /\ Range(best_ids) \cap Range(heap[feat_cand]) = {}
    /\ Range(best_ids) \cup Range(heap[feat_cand]) = Range(heap[candidates])
    /\ Len(best_ids) + Len(heap[feat_cand]) = Len(heap[candidates])

C17_Witness ==
  /\ pc = "search"
  /\ Len(best_ids) = 1
  /\ Len(heap[feat_cand]) = 1
  /\ best_ids[1] = heap[candidates][1]
  /\ heap[feat_cand][1] = heap[candidates][2]

\* C18: when every collaborator call returns, every round either leaves the
\* loop or takes one candidate out of the local pool, the rounds run so far
\* (the accepted ones, plus the one that broke off with candidates left)
\* never exceed the size of the initial pool, every inner-loop run ends,
\* every call returns, and it returns after one inner-loop run per meta-fold.
C18_Terminates ==
  /\ (pc = "search") ~> (pc = "eval")
  /\ InCall ~> (pc = "idle" /\ outcome = "returned")
  /\ [](pc \in {"search", "eval"} =>
          Len(best_ids) + (IF pc = "eval" /\ heap[feat_cand] # <<>> THEN 1 ELSE 0)
            <= Len(heap[candidates]))
  /\ [][RoundStep =>
          \/ pc' = "eval"
          \/ Len(heap'[feat_cand']) = Len(heap[feat_cand]) - 1]_vars
  /\ [][(pc = "fold" /\ outcome' = "returned") =>
          /\ Len(cv_rois) = Len(metacv_origins)
          /\ fold = Len(metacv_origins) + 1]_vars

C18_Witness ==
  /\ pc = "idle"
  /\ outcome = "returned"
  /\ Len(metacv_origins) = 2
  /\ Len(retval) = 2
  /\ Len(retval[1]) = Len(mask)
  /\ Len(mask) = 2

====
